---- MODULE Spec2Model ----
(***************************************************************************)
(* Model of web/src/app/api/mcp/local-files/route.ts: the GET (listing)    *)
(* and POST (ingest) handlers, their helpers callMCPServer,                *)
(* processDocumentContent, addDocumentToOnyx and chunkContent, and the     *)
(* two services they talk to (the MCP file server and the Onyx document    *)
(* store).                                                                 *)
(*                                                                         *)
(* Strings are sequences of character codes (97 = 'a', 98 = 'b',           *)
(* 32 = ' ').                                                              *)
(***************************************************************************)
EXTENDS Integers, Sequences, FiniteSets, TLC

(***************************************************************************)
(* Bounds of the model.                                                    *)
(***************************************************************************)
MaxTextLen == 4          \* longest text handed to the chunker in ChunkSpec
MaxChunkSize == 3        \* largest explicit chunkSize argument in ChunkSpec
Tolerance == 1           \* width of the boundary window before chunkSize
MaxFileSizeBytes == 3    \* the file server's configured maxFileSizeBytes
SyncConcurrency == 2     \* the file server's configured syncConcurrency
MaxLoopSteps == 3        \* iterations followed of a loop that does not advance

(***************************************************************************)
(* Program constants.  The default chunk size of route.ts is 1000; the     *)
(* model scales it to 2 so that texts of a few characters span several     *)
(* chunks.                                                                 *)
(***************************************************************************)
DefaultChunkSize == 2

Chars == {97, 98, 32}
Whitespace == {32}

RECURSIVE SeqsUpTo(_, _)
SeqsUpTo(S, n) ==
    IF n = 0 THEN {<<>>}
    ELSE LET shorter == SeqsUpTo(S, n - 1)
         IN  shorter \cup {Append(s, c) : s \in {t \in shorter : Len(t) = n - 1}, c \in S}

Min(a, b) == IF a < b THEN a ELSE b

Max(a, b) == IF a > b THEN a ELSE b

(***************************************************************************)
(* String.prototype.slice(from, to): 0-based, end-exclusive; an index      *)
(* below zero counts from the end of the string, every index is clamped    *)
(* to 0..length, and an end at or before the start gives the empty string. *)
(***************************************************************************)
SliceIndex(s, at) == IF at < 0 THEN Max(Len(s) + at, 0) ELSE Min(at, Len(s))

slice(s, from, to) == SubSeq(s, SliceIndex(s, from) + 1, SliceIndex(s, to))

(***************************************************************************)
(* Math.floor(i / n): NaN for 0 / 0, the only division by zero the loop    *)
(* of chunkContent can make (i stays 0 when n is 0).                       *)
(***************************************************************************)
NaN == "NaN"

FloorDiv(i, n) ==
    IF n = 0 THEN NaN
    ELSE IF n > 0 THEN i \div n
    ELSE (0 - i) \div (0 - n)

(***************************************************************************)
(* chunkContent, route.ts lines 251-261.                                   *)
(* ChunkAt is the object pushed by one iteration of the loop; the id       *)
(* `chunk_${i}` is modelled by the offset i it is built from.              *)
(***************************************************************************)
\* variant: the slice runs one character past the chunk size
ChunkAt_LongSlice(content, i, chunkSize) ==
    [id      |-> i,
     content |-> slice(content, i, i + chunkSize + 1),
     index   |-> FloorDiv(i, chunkSize)]

\* variant: the index is the character offset instead of the chunk number
ChunkAt_OffsetIndex(content, i, chunkSize) ==
    [id      |-> i,
     content |-> slice(content, i, i + chunkSize),
     index   |-> i]

ChunkAt(content, i, chunkSize) ==
    [id      |-> i,
     content |-> slice(content, i, i + chunkSize),
     index   |-> FloorDiv(i, chunkSize)]

\* variant: the loop runs only while a whole chunk is left
RECURSIVE chunkLoop_WholeChunksOnly(_, _, _, _)
chunkLoop_WholeChunksOnly(content, chunkSize, i, chunks) ==
    IF i + chunkSize <= Len(content)
    THEN chunkLoop_WholeChunksOnly(content, chunkSize, i + chunkSize,
                                   Append(chunks, ChunkAt(content, i, chunkSize)))
    ELSE chunks

\* variant: the loop runs while i <= content.length
RECURSIVE chunkLoop_Inclusive(_, _, _, _)
chunkLoop_Inclusive(content, chunkSize, i, chunks) ==
    IF i <= Len(content)
    THEN chunkLoop_Inclusive(content, chunkSize, i + chunkSize,
                             Append(chunks, ChunkAt(content, i, chunkSize)))
    ELSE chunks

RECURSIVE chunkLoop(_, _, _, _)
chunkLoop(content, chunkSize, i, chunks) ==
    IF i < Len(content)
    THEN chunkLoop(content, chunkSize, i + chunkSize,
                   Append(chunks, ChunkAt(content, i, chunkSize)))
    ELSE chunks

chunkContent(content, chunkSize) == chunkLoop(content, chunkSize, 0, <<>>)

(***************************************************************************)
(* Values shared by the handlers.  None stands for undefined / an absent   *)
(* field; an error text is a sequence of fragments, so that a template     *)
(* literal `prefix${inner}` is <<prefix>> \o inner.                        *)
(***************************************************************************)
None == "none"
EmptyObject == [k \in {} |-> None]

\* what reading a member of an absent object gives (undefined), as a string
\* value and as an object value
UndefinedText == <<-1>>
UndefinedObject == [undefined |-> TRUE]

\* the `result` member of a JSON-RPC reply; present = FALSE when the reply
\* has no such member, and data.result?.content is then undefined
NoResult ==
    [present |-> FALSE, content |-> UndefinedText, metadata |-> UndefinedObject]
Result(content, metadata) ==
    [present |-> TRUE, content |-> content, metadata |-> metadata]

StatusText(status) ==
    CASE status = 200 -> "200"
      [] status = 500 -> "500"
      [] status = 503 -> "503"
      [] OTHER -> "0"

(***************************************************************************)
(* Base64 as the transport encoding of file bytes.  A symbol is its        *)
(* 6-bit value, Pad (64) is '='.                                           *)
(***************************************************************************)
Pad == 64

RECURSIVE Base64Encode(_)
Base64Encode(bytes) ==
    IF Len(bytes) = 0 THEN <<>>
    ELSE IF Len(bytes) = 1
    THEN <<bytes[1] \div 4, (bytes[1] % 4) * 16, Pad, Pad>>
    ELSE IF Len(bytes) = 2
    THEN <<bytes[1] \div 4,
           (bytes[1] % 4) * 16 + bytes[2] \div 16,
           (bytes[2] % 16) * 4,
           Pad>>
    ELSE <<bytes[1] \div 4,
           (bytes[1] % 4) * 16 + bytes[2] \div 16,
           (bytes[2] % 16) * 4 + bytes[3] \div 64,
           bytes[3] % 64>>
         \o Base64Encode(SubSeq(bytes, 4, Len(bytes)))

\* Buffer.from(s, 'base64'): decoding stops at the first '=', every four
\* symbols give three bytes, a tail of 2 (3) symbols gives 1 (2) bytes and a
\* tail of one symbol gives none
RECURSIVE UntilPad(_)
UntilPad(syms) ==
    IF syms = <<>> \/ syms[1] = Pad THEN <<>>
    ELSE <<syms[1]>> \o UntilPad(Tail(syms))

RECURSIVE DecodeSymbols(_)
DecodeSymbols(syms) ==
    IF Len(syms) <= 1 THEN <<>>
    ELSE LET b1 == (syms[1] * 4 + syms[2] \div 16) % 256
         IN  IF Len(syms) = 2 THEN <<b1>>
             ELSE LET b2 == ((syms[2] % 16) * 16 + syms[3] \div 4) % 256
                  IN  IF Len(syms) = 3 THEN <<b1, b2>>
                      ELSE <<b1, b2, ((syms[3] % 4) * 64 + syms[4]) % 256>>
                               \o DecodeSymbols(SubSeq(syms, 5, Len(syms)))

\* .toString('utf-8') on bytes: an ASCII byte is its character, a byte that
\* starts no valid sequence becomes U+FFFD (the files of the model are ASCII)
Utf8ToString(bytes) ==
    [n \in 1..Len(bytes) |-> IF bytes[n] < 128 THEN bytes[n] ELSE 65533]

Base64ToText(content) == Utf8ToString(DecodeSymbols(UntilPad(content)))

(***************************************************************************)
(* The MCP file server (PathGuard, FileReader, DirectoryLister).  Paths    *)
(* are sequences of segments below "/".                                    *)
(***************************************************************************)
AllowedRoots == {<<"docs">>, <<"inbox">>}     \* "inbox" holds no file
AllowedExtensions == {"txt"}
AllowedDirectory == <<"docs">>

ExtOf(segment) ==
    CASE segment = "a.txt"   -> "txt"
      [] segment = "e.txt"   -> "txt"
      [] segment = "big.txt" -> "txt"
      [] segment = "lock.txt" -> "txt"
      [] segment = "nope.txt" -> "txt"
      [] segment = "x.exe"   -> "exe"
      [] OTHER -> ""

\* the files on disk: resolved path -> bytes and read permission
FilePaths ==
    {<<"docs", "a.txt">>, <<"docs", "e.txt">>, <<"docs", "big.txt">>,
     <<"docs", "lock.txt">>, <<"docs", "x.exe">>, <<"etc", "passwd">>}

FileBytes(path) ==
    CASE path = <<"docs", "a.txt">>    -> <<97, 98, 32>>
      [] path = <<"docs", "e.txt">>    -> <<>>
      [] path = <<"docs", "big.txt">>  -> [n \in 1..(MaxFileSizeBytes + 1) |-> 97]
      [] path = <<"docs", "lock.txt">> -> <<98>>
      [] path = <<"docs", "x.exe">>    -> <<97>>
      [] path = <<"etc", "passwd">>    -> <<98, 98>>
      [] OTHER -> <<>>

FileReadable(path) == path # <<"docs", "lock.txt">>

\* the paths a caller asks for: the files, a missing file and a traversal
RequestPaths ==
    FilePaths \cup {<<"docs", "nope.txt">>, <<"docs", "..", "etc", "passwd">>}

\* canonical form of a path: "." dropped, ".." removes the segment before it
RECURSIVE Resolve(_)
Resolve(path) ==
    IF path = <<>> THEN <<>>
    ELSE LET front == Resolve(SubSeq(path, 1, Len(path) - 1))
             last  == path[Len(path)]
         IN  IF last = "." THEN front
             ELSE IF last = ".."
             THEN (IF front = <<>> THEN <<>> ELSE SubSeq(front, 1, Len(front) - 1))
             ELSE Append(front, last)

IsPrefix(root, path) ==
    /\ Len(root) <= Len(path)
    /\ SubSeq(path, 1, Len(root)) = root

UnderAllowedRoot(resolved) == \E root \in AllowedRoots : IsPrefix(root, resolved)

\* PathGuard.validate: the resolved path, or PathDenied when it lies under
\* no allowed root or does not exist
validate(requestedPath) ==
    LET resolved == Resolve(requestedPath)
    IN  IF ~UnderAllowedRoot(resolved) THEN [ok |-> FALSE, reason |-> "PathDenied", path |-> resolved]
        ELSE IF resolved \notin FilePaths /\ resolved \notin AllowedRoots
        THEN [ok |-> FALSE, reason |-> "PathDenied", path |-> resolved]
        ELSE [ok |-> TRUE, reason |-> None, path |-> resolved]

\* FileReader.read behind the read_file tool: validate, then the extension
\* whitelist, then the size from stat, and only then the bytes
ServerReadFile(requestedPath) ==
    LET v == validate(requestedPath)
    IN  IF ~v.ok THEN [error |-> v.reason, read |-> FALSE, result |-> NoResult]
        ELSE IF ExtOf(v.path[Len(v.path)]) \notin AllowedExtensions
        THEN [error |-> "UnsupportedExtension", read |-> FALSE, result |-> NoResult]
        ELSE IF Len(FileBytes(v.path)) > MaxFileSizeBytes
        THEN [error |-> "TooLarge", read |-> FALSE, result |-> NoResult]
        ELSE IF ~FileReadable(v.path)
        THEN [error |-> "Unreadable", read |-> FALSE, result |-> NoResult]
        ELSE [error |-> None, read |-> TRUE,
              result |-> Result(Base64Encode(FileBytes(v.path)),
                                [sizeBytes |-> Len(FileBytes(v.path)),
                                 extension |-> ExtOf(v.path[Len(v.path)])])]

\* DirectoryLister.list behind the list_directory tool (non-recursive)
DirectoryEntries(resolved) ==
    {[name |-> p[Len(p)], path |-> p, type |-> "file"] :
         p \in {q \in FilePaths : Len(q) = Len(resolved) + 1 /\ IsPrefix(resolved, q)}}

\* some enumeration of a finite set as a sequence
RECURSIVE SetToSeq(_)
SetToSeq(S) ==
    IF S = {} THEN <<>>
    ELSE LET x == CHOOSE y \in S : TRUE IN <<x>> \o SetToSeq(S \ {x})

ServerListDirectory(requestedPath) ==
    LET v == validate(requestedPath)
    IN  IF ~v.ok THEN [error |-> v.reason, result |-> NoResult]
        ELSE [error |-> None,
              result |-> Result(SetToSeq(DirectoryEntries(v.path)), EmptyObject)]

(***************************************************************************)
(* What `await fetch(...)` followed by `response.json()` can give: the     *)
(* request threw, or an HTTP reply with a status and a parsed body.        *)
(***************************************************************************)
FetchThrew(message) ==
    [kind |-> "threw", ok |-> FALSE, status |-> 0, message |-> message,
     error |-> None, result |-> NoResult]
HttpReply(status, error, result) ==
    [kind |-> "http", ok |-> (status = 200), status |-> status, message |-> None,
     error |-> error, result |-> result]

\* the replies the file server can give to one tools/call request: the
\* transport fails, the server is down (non-OK status, no JSON-RPC body
\* fields), or it answers with a JSON-RPC error or result
RawErrorTexts == {"fetch failed", "connect ECONNREFUSED 127.0.0.1:8001"}

McpFetchOutcomes(answer) ==
    {FetchThrew(message) : message \in RawErrorTexts}
        \cup {HttpReply(503, None, NoResult)}
        \cup {IF answer.error # None
              THEN HttpReply(200, answer.error, NoResult)
              ELSE HttpReply(200, None, answer.result)}

(***************************************************************************)
(* callMCPServer, route.ts lines 120-165, applied to the outcome of its    *)
(* fetch.                                                                  *)
(***************************************************************************)
\* the value returned by the catch block; it has no content and no metadata
\* member, which the model writes as empty ones (its callers read neither)
McpFailure(message) ==
    [success |-> FALSE,
     error   |-> <<"MCP server call failed: ">> \o message,
     content |-> <<>>, metadata |-> EmptyObject]

\* variant: the JSON-RPC error member of the reply is not looked at
callMCPServer_NoRpcError(fetched) ==
    IF fetched.kind = "threw"
    THEN McpFailure(<<fetched.message>>)
    ELSE IF ~fetched.ok
    THEN McpFailure(<<"MCP server responded with status: ", StatusText(fetched.status)>>)
    ELSE [success  |-> TRUE,
          error    |-> <<>>,
          content  |-> IF fetched.result.present THEN fetched.result.content
                       ELSE <<>>,
          metadata |-> IF fetched.result.present THEN fetched.result.metadata
                       ELSE EmptyObject]

\* variant: the HTTP status of the reply is not looked at
callMCPServer_NoStatusCheck(fetched) ==
    IF fetched.kind = "threw"
    THEN McpFailure(<<fetched.message>>)
    ELSE IF fetched.error # None
    THEN McpFailure(<<"MCP server error: ", fetched.error>>)
    ELSE [success  |-> TRUE,
          error    |-> <<>>,
          content  |-> IF fetched.result.present THEN fetched.result.content
                       ELSE <<>>,
          metadata |-> IF fetched.result.present THEN fetched.result.metadata
                       ELSE EmptyObject]

\* variant: content and metadata are returned without their `|| ''` and
\* `|| {}` defaults
callMCPServer_NoDefaults(fetched) ==
    IF fetched.kind = "threw"
    THEN McpFailure(<<fetched.message>>)
    ELSE IF ~fetched.ok
    THEN McpFailure(<<"MCP server responded with status: ", StatusText(fetched.status)>>)
    ELSE IF fetched.error # None
    THEN McpFailure(<<"MCP server error: ", fetched.error>>)
    ELSE [success  |-> TRUE,
          error    |-> <<>>,
          content  |-> fetched.result.content,
          metadata |-> fetched.result.metadata]

callMCPServer(fetched) ==
    IF fetched.kind = "threw"
    THEN McpFailure(<<fetched.message>>)
    ELSE IF ~fetched.ok
    THEN McpFailure(<<"MCP server responded with status: ", StatusText(fetched.status)>>)
    ELSE IF fetched.error # None
    THEN McpFailure(<<"MCP server error: ", fetched.error>>)
    ELSE [success  |-> TRUE,
          error    |-> <<>>,
          content  |-> IF fetched.result.present THEN fetched.result.content
                       ELSE <<>>,
          metadata |-> IF fetched.result.present THEN fetched.result.metadata
                       ELSE EmptyObject]

(***************************************************************************)
(* processDocumentContent, route.ts lines 168-199.  `now` is the value of  *)
(* new Date().toISOString().  Buffer.from(string, 'base64') does not       *)
(* throw, so the catch of lines 175-177 is never entered for the string    *)
(* contents of the model.                                                  *)
(***************************************************************************)
\* variant: the server's metadata is spread after the route's fields
processDocumentContent_SpreadLast(fileName, filePath, fileType, content, metadata, now) ==
    LET textContent == Base64ToText(content)
        chunks == chunkContent(textContent, DefaultChunkSize)
        processedMetadata ==
            metadata @@
            [fileName     |-> fileName,
             filePath     |-> filePath,
             fileType     |-> fileType,
             processedAt  |-> now,
             chunkCount   |-> Len(chunks),
             originalSize |-> Len(textContent),
             source       |-> "local_file",
             mcpProcessed |-> TRUE]
    IN  [fileName |-> fileName,
         content  |-> textContent,
         chunks   |-> chunks,
         metadata |-> processedMetadata]

\* variant: chunkCount is the length of the text instead of chunks.length
processDocumentContent_CountsText(fileName, filePath, fileType, content, metadata, now) ==
    LET textContent == Base64ToText(content)
        chunks == chunkContent(textContent, DefaultChunkSize)
        processedMetadata ==
            [fileName     |-> fileName,
             filePath     |-> filePath,
             fileType     |-> fileType,
             processedAt  |-> now,
             chunkCount   |-> Len(textContent),
             originalSize |-> Len(textContent),
             source       |-> "local_file",
             mcpProcessed |-> TRUE] @@ metadata
    IN  [fileName |-> fileName,
         content  |-> textContent,
         chunks   |-> chunks,
         metadata |-> processedMetadata]

processDocumentContent(fileName, filePath, fileType, content, metadata, now) ==
    LET textContent == Base64ToText(content)
        chunks == chunkContent(textContent, DefaultChunkSize)
        processedMetadata ==
            [fileName     |-> fileName,
             filePath     |-> filePath,
             fileType     |-> fileType,
             processedAt  |-> now,
             chunkCount   |-> Len(chunks),
             originalSize |-> Len(textContent),
             source       |-> "local_file",
             mcpProcessed |-> TRUE] @@ metadata
    IN  [fileName |-> fileName,
         content  |-> textContent,
         chunks   |-> chunks,
         metadata |-> processedMetadata]

NoDocument ==
    [fileName |-> None, content |-> <<>>, chunks |-> <<>>, metadata |-> EmptyObject]

(***************************************************************************)
(* The Onyx document store behind POST /api/documents, and                 *)
(* addDocumentToOnyx, route.ts lines 202-248.  randomDoc and randomFile    *)
(* are the two values of Math.random().toString(36).substr(2, 9).          *)
(***************************************************************************)
StoreDocumentIds == {"doc_s1", "doc_s2"}
StoreFileIds == {"file_s1"}
RandomSuffixes == {"r1", "r2"}

DocId(suffix) == IF suffix = "r1" THEN "doc_r1" ELSE "doc_r2"
FileId(suffix) == IF suffix = "r1" THEN "file_r1" ELSE "file_r2"

OnyxThrew ==
    [kind |-> "threw", ok |-> FALSE, status |-> 0,
     document_id |-> None, file_id |-> None]
OnyxReply(status, documentId, fileId) ==
    [kind |-> "http", ok |-> (status = 200), status |-> status,
     document_id |-> documentId, file_id |-> fileId]
NoFetch ==
    [kind |-> None, ok |-> FALSE, status |-> 0,
     document_id |-> None, file_id |-> None]

\* the store never answers: route.ts arms no timer and passes no AbortSignal,
\* so the fetch either never settles (POST_OnyxReturn is then never taken)
\* or is rejected by a timeout of the runtime's fetch
OnyxTimedOut ==
    [kind |-> "timeout", ok |-> FALSE, status |-> 0,
     document_id |-> None, file_id |-> None]

OnyxFetchOutcomes ==
    {OnyxThrew, OnyxTimedOut, OnyxReply(500, None, None)}
        \cup {OnyxReply(200, d, f) : d \in StoreDocumentIds, f \in StoreFileIds}

\* variant: the catch block reports the failure instead of simulating success
addDocumentToOnyx_ReportsFailure(documentData, fetched, randomDoc, randomFile) ==
    IF fetched.kind = "http" /\ fetched.ok
    THEN [success    |-> TRUE,
          documentId |-> fetched.document_id,
          fileId     |-> fetched.file_id,
          chunks     |-> Len(documentData.chunks),
          warning    |-> None]
    ELSE [success    |-> FALSE,
          documentId |-> None,
          fileId     |-> None,
          chunks     |-> 0,
          warning    |-> None]

addDocumentToOnyx(documentData, fetched, randomDoc, randomFile) ==
    IF fetched.kind = "http" /\ fetched.ok
    THEN [success    |-> TRUE,
          documentId |-> fetched.document_id,
          fileId     |-> fetched.file_id,
          chunks     |-> Len(documentData.chunks),
          warning    |-> None]
    ELSE [success    |-> TRUE,
          documentId |-> DocId(randomDoc),
          fileId     |-> FileId(randomFile),
          chunks     |-> Len(documentData.chunks),
          warning    |-> "Onyx backend not available - using fallback"]

NoOnyxResponse ==
    [success |-> FALSE, documentId |-> None, fileId |-> None, chunks |-> 0,
     warning |-> None]

(***************************************************************************)
(* The requests and the responses of the two handlers.                     *)
(***************************************************************************)
FileNames == {"a.txt", "report.pdf"}
FileTypes == {"file"}
Clock == {"t1", "t2"}

NoRequest ==
    [method |-> None, filePath |-> <<>>, fileName |-> None, fileType |-> None]

NoResponse ==
    [status |-> 0, success |-> FALSE, error |-> <<>>, message |-> <<>>,
     files |-> <<>>, warning |-> None, documentId |-> None, fileId |-> None,
     chunks |-> 0, metadata |-> EmptyObject]

\* NextResponse.json(body) and NextResponse.json(body, {status: 500}); a
\* member the body does not have keeps its NoResponse value
Json(status, body) == body @@ [NoResponse EXCEPT !.status = status]

mockLocalFiles(now) ==
    <<[name |-> "Documents", path |-> <<"Documents">>, type |-> "folder", lastModified |-> now],
      [name |-> "Downloads", path |-> <<"Downloads">>, type |-> "folder", lastModified |-> now],
      [name |-> "Desktop", path |-> <<"Desktop">>, type |-> "folder", lastModified |-> now]>>

(***************************************************************************)
(* State.                                                                  *)
(***************************************************************************)
VARIABLES
    cText,      \* chunker harness: the text argument
    cSize,      \* chunker harness: the chunkSize in force
    cOverlap,   \* chunker harness: the configured overlap (chunkOverlap)
    cChunks,    \* chunker harness: the returned chunk array
    cPc,        \* chunker harness: "start" | "loop" | "returned"
    cI,         \* chunker loop: the scan offset i
    pc,           \* position of the handler: "idle", "GET_mcp", "POST_mcp",
                  \* "POST_onyx" (awaiting that fetch) or "responded"
    req,          \* the request being handled
    mcpSent,      \* tools/call requests sent to the file server for it
    mcpFetch,     \* what the fetch of callMCPServer gave
    mcpResponse,  \* what callMCPServer returned
    fsReads,      \* resolved paths whose bytes the file server has read
    documentData, \* what processDocumentContent returned
    onyxSent,     \* documents sent to the document store for the request
    onyxFetch,    \* what the fetch of addDocumentToOnyx gave
    onyxResponse, \* what addDocumentToOnyx returned
    response,     \* the response given to the caller
    sPc,          \* sync run: "idle" | "running" | "returned"
    sDiscovered,  \* sync run: the discovered file paths, in discovery order
    sFiles,       \* sync run: per discovered file, its state and result
    sCompleted,   \* sync run: indices of the finished files, in completion order
    sCancelled,   \* sync run: the cancellation signal has been given
    sPendingAtCancel, \* sync run: files not yet started when it was given
    sOutcome      \* sync run: the SyncOutcome returned

chunkVars == <<cText, cSize, cOverlap, cChunks, cPc, cI>>
syncVars == <<sPc, sDiscovered, sFiles, sCompleted, sCancelled,
              sPendingAtCancel, sOutcome>>
routeVars == <<pc, req, mcpSent, mcpFetch, mcpResponse, fsReads, documentData,
               onyxSent, onyxFetch, onyxResponse, response>>
vars == <<cText, cSize, cOverlap, cChunks, cPc, cI, pc, req, mcpSent, mcpFetch,
          mcpResponse, fsReads, documentData, onyxSent, onyxFetch,
          onyxResponse, response, sPc, sDiscovered, sFiles, sCompleted,
          sCancelled, sPendingAtCancel, sOutcome>>

NoOutcome ==
    [succeeded |-> <<>>, failed |-> <<>>, totalFiles |-> 0,
     successCount |-> 0, failCount |-> 0]

SyncIdle ==
    /\ sPc = "idle"
    /\ sDiscovered = <<>>
    /\ sFiles = <<>>
    /\ sCompleted = <<>>
    /\ sCancelled = FALSE
    /\ sPendingAtCancel = {}
    /\ sOutcome = NoOutcome

NoMcpFetch ==
    [kind |-> None, ok |-> FALSE, status |-> 0, message |-> None,
     error |-> None, result |-> NoResult]
NoMcpResponse ==
    [success |-> FALSE, error |-> <<>>, content |-> <<>>, metadata |-> EmptyObject]

RouteIdle ==
    /\ pc = "idle"
    /\ req = NoRequest
    /\ mcpSent = <<>>
    /\ mcpFetch = NoMcpFetch
    /\ mcpResponse = NoMcpResponse
    /\ documentData = NoDocument
    /\ onyxSent = <<>>
    /\ onyxFetch = NoFetch
    /\ onyxResponse = NoOnyxResponse
    /\ response = NoResponse

ChunkIdle ==
    /\ cText = <<>>
    /\ cSize = DefaultChunkSize
    /\ cOverlap = 0
    /\ cChunks = <<>>
    /\ cPc = "idle"
    /\ cI = 0

(***************************************************************************)
(* Chunker harness: chunkContent applied to every bounded text, with an    *)
(* explicit chunkSize or with the default one.                             *)
(***************************************************************************)
ChunkInit ==
    /\ cText \in SeqsUpTo(Chars, MaxTextLen)
    /\ cSize \in 1..MaxChunkSize
    /\ cOverlap \in 0..(MaxChunkSize - 1)
    /\ cOverlap < cSize
    /\ cChunks = <<>>
    /\ cPc = "start"
    /\ cI = 0
    /\ RouteIdle
    /\ fsReads = {}
    /\ SyncIdle

ChunkCall ==
    /\ cPc = "start"
    /\ cChunks' = chunkContent(cText, cSize)
    /\ cPc' = "returned"
    /\ UNCHANGED <<cText, cSize, cOverlap, cI>>
    /\ UNCHANGED routeVars
    /\ UNCHANGED syncVars

ChunkCallDefault ==
    /\ cPc = "start"
    /\ cOverlap < DefaultChunkSize
    /\ cSize' = DefaultChunkSize
    /\ cChunks' = chunkContent(cText, DefaultChunkSize)
    /\ cPc' = "returned"
    /\ UNCHANGED <<cText, cOverlap, cI>>
    /\ UNCHANGED routeVars
    /\ UNCHANGED syncVars

ChunkNext == ChunkCall \/ ChunkCallDefault

ChunkSpec == ChunkInit /\ [][ChunkNext]_vars

(***************************************************************************)
(* The loop of chunkContent, lines 252-260, one iteration per step, for    *)
(* every chunkSize argument a caller can pass (also 0 and a negative       *)
(* one).  The body runs to completion once entered, hence the weak         *)
(* fairness.  A loop whose offset does not advance is followed for         *)
(* MaxLoopSteps iterations.                                                *)
(***************************************************************************)
LoopChunkSizes == (0 - 1)..MaxChunkSize

LoopInit ==
    /\ cText \in SeqsUpTo(Chars, MaxTextLen)
    /\ cSize \in LoopChunkSizes
    /\ cOverlap = 0
    /\ cChunks = <<>>
    /\ cPc = "loop"
    /\ cI = 0
    /\ RouteIdle
    /\ fsReads = {}
    /\ SyncIdle

\* line 253 true, lines 254-258 and i += chunkSize
LoopStep ==
    /\ cPc = "loop"
    /\ cI < Len(cText)
    /\ (cSize >= 1 \/ Len(cChunks) < MaxLoopSteps)
    /\ cChunks' = Append(cChunks, ChunkAt(cText, cI, cSize))
    /\ cI' = cI + cSize
    /\ UNCHANGED <<cText, cSize, cOverlap, cPc>>
    /\ UNCHANGED routeVars
    /\ UNCHANGED syncVars

\* line 253 false, line 260
\* variant: the loop is left only when i is exactly content.length
LoopExit_OnlyAtLength ==
    /\ cPc = "loop"
    /\ cI = Len(cText)
    /\ cPc' = "returned"
    /\ UNCHANGED <<cText, cSize, cOverlap, cChunks, cI>>
    /\ UNCHANGED routeVars
    /\ UNCHANGED syncVars

LoopExit ==
    /\ cPc = "loop"
    /\ ~(cI < Len(cText))
    /\ cPc' = "returned"
    /\ UNCHANGED <<cText, cSize, cOverlap, cChunks, cI>>
    /\ UNCHANGED routeVars
    /\ UNCHANGED syncVars

LoopNext == LoopStep \/ LoopExit

LoopSpec == LoopInit /\ [][LoopNext]_vars /\ WF_vars(LoopNext)

(***************************************************************************)
(* The route.  A handler runs from one await of a fetch to the next in     *)
(* one step; one request is handled at a time.                             *)
(***************************************************************************)
Init ==
    /\ ChunkIdle
    /\ RouteIdle
    /\ fsReads = {}
    /\ SyncIdle

\* GET, lines 12-17: up to the fetch of callMCPServer('list_directory')
GET_Start ==
    /\ pc = "idle"
    /\ req' = [NoRequest EXCEPT !.method = "GET"]
    /\ mcpSent' = Append(mcpSent, [tool |-> "list_directory", path |-> AllowedDirectory])
    /\ pc' = "GET_mcp"
    /\ UNCHANGED <<mcpFetch, mcpResponse, fsReads, documentData, onyxSent,
                   onyxFetch, onyxResponse, response>>
    /\ UNCHANGED chunkVars
    /\ UNCHANGED syncVars

\* GET, lines 19-61: from the return of callMCPServer to the response
GET_Respond(mcpReturned, now) ==
    IF ~mcpReturned.success
    THEN Json(200, [success |-> TRUE,
                    files   |-> mockLocalFiles(now),
                    warning |-> "Using fallback data - MCP server not available"])
    ELSE Json(200, [success |-> TRUE, files |-> mcpReturned.content])

GET_McpReturn ==
    /\ pc = "GET_mcp"
    /\ \E fetched \in McpFetchOutcomes(ServerListDirectory(mcpSent[Len(mcpSent)].path)),
          now \in Clock :
        /\ mcpFetch' = fetched
        /\ mcpResponse' = callMCPServer(fetched)
        /\ response' = GET_Respond(callMCPServer(fetched), now)
    /\ pc' = "responded"
    /\ UNCHANGED <<req, mcpSent, fsReads, documentData, onyxSent, onyxFetch,
                   onyxResponse>>
    /\ UNCHANGED chunkVars
    /\ UNCHANGED syncVars

\* the catch block of POST, lines 107-116
\* variant: the catch block answers without the {status: 500} argument
POST_Failure_DefaultStatus(message) ==
    Json(200, [success |-> FALSE, error |-> <<"Failed to ingest file: ">> \o message])

POST_Failure(message) ==
    Json(500, [success |-> FALSE, error |-> <<"Failed to ingest file: ">> \o message])

\* POST, lines 66-67: request.json() throws on a body that is not JSON
POST_BadBody ==
    /\ pc = "idle"
    /\ req' = [NoRequest EXCEPT !.method = "POST"]
    /\ response' = POST_Failure(<<"Unexpected token">>)
    /\ pc' = "responded"
    /\ UNCHANGED <<mcpSent, mcpFetch, mcpResponse, fsReads, documentData,
                   onyxSent, onyxFetch, onyxResponse>>
    /\ UNCHANGED chunkVars
    /\ UNCHANGED syncVars

\* POST, lines 66-76: up to the fetch of callMCPServer('read_file')
POST_Start ==
    /\ pc = "idle"
    /\ \E filePath \in RequestPaths, fileName \in FileNames, fileType \in FileTypes :
        /\ req' = [method |-> "POST", filePath |-> filePath,
                   fileName |-> fileName, fileType |-> fileType]
        /\ mcpSent' = Append(mcpSent, [tool |-> "read_file", path |-> filePath])
    /\ pc' = "POST_mcp"
    /\ UNCHANGED <<mcpFetch, mcpResponse, fsReads, documentData, onyxSent,
                   onyxFetch, onyxResponse, response>>
    /\ UNCHANGED chunkVars
    /\ UNCHANGED syncVars

\* POST, line 78: the read step failed
\* variant: the result of the read step is not looked at
McpFailed_Never(mcpReturned) == FALSE

McpFailed(mcpReturned) == ~mcpReturned.success

\* POST, lines 78-92: from the return of callMCPServer either to the catch
\* block or, through processDocumentContent, to the fetch of
\* addDocumentToOnyx
POST_McpReturn ==
    /\ pc = "POST_mcp"
    /\ \E fetched \in McpFetchOutcomes(ServerReadFile(req.filePath)), now \in Clock :
        LET mcpReturned == callMCPServer(fetched)
            document == processDocumentContent(req.fileName, req.filePath,
                            req.fileType, mcpReturned.content,
                            mcpReturned.metadata, now)
        IN  /\ mcpFetch' = fetched
            /\ mcpResponse' = mcpReturned
            /\ fsReads' = IF fetched.kind = "http" /\ fetched.status = 200
                             /\ ServerReadFile(req.filePath).read
                          THEN fsReads \cup {Resolve(req.filePath)}
                          ELSE fsReads
            /\ IF McpFailed(mcpReturned)
               THEN /\ response' = POST_Failure(<<"MCP server error: ">> \o mcpReturned.error)
                    /\ pc' = "responded"
                    /\ UNCHANGED <<documentData, onyxSent>>
               ELSE /\ documentData' = document
                    /\ onyxSent' = Append(onyxSent,
                           [name     |-> document.fileName,
                            content  |-> document.content,
                            chunks   |-> document.chunks,
                            metadata |-> document.metadata,
                            source   |-> "mcp_local_file"])
                    /\ pc' = "POST_onyx"
                    /\ UNCHANGED response
    /\ UNCHANGED <<req, mcpSent, onyxFetch, onyxResponse>>
    /\ UNCHANGED chunkVars
    /\ UNCHANGED syncVars

\* POST, lines 94-105: from the return of addDocumentToOnyx to the response
POST_Respond(onyxReturned, document) ==
    IF ~onyxReturned.success
    THEN POST_Failure(<<"Onyx integration error: ", "Unknown error">>)
    ELSE Json(200, [success    |-> TRUE,
                    message    |-> <<"Successfully ingested ", document.fileName, " into Onyx">>,
                    documentId |-> onyxReturned.documentId,
                    fileId     |-> onyxReturned.fileId,
                    chunks     |-> onyxReturned.chunks,
                    metadata   |-> document.metadata])

\* variant: a failed request to the document store is sent a second time
POST_OnyxReturn_Retry ==
    /\ pc = "POST_onyx"
    /\ \E fetched \in OnyxFetchOutcomes, randomDoc \in RandomSuffixes,
          randomFile \in RandomSuffixes :
        LET onyxReturned == addDocumentToOnyx(documentData, fetched, randomDoc, randomFile)
        IN  /\ onyxFetch' = fetched
            /\ IF ~fetched.ok /\ Len(onyxSent) < 2
               THEN /\ onyxSent' = Append(onyxSent, onyxSent[1])
                    /\ UNCHANGED <<pc, onyxResponse, response>>
               ELSE /\ onyxResponse' = onyxReturned
                    /\ response' = POST_Respond(onyxReturned, documentData)
                    /\ pc' = "responded"
                    /\ UNCHANGED onyxSent
    /\ UNCHANGED <<req, mcpSent, mcpFetch, mcpResponse, fsReads, documentData>>
    /\ UNCHANGED chunkVars
    /\ UNCHANGED syncVars

POST_OnyxReturn ==
    /\ pc = "POST_onyx"
    /\ \E fetched \in OnyxFetchOutcomes, randomDoc \in RandomSuffixes,
          randomFile \in RandomSuffixes :
        LET onyxReturned == addDocumentToOnyx(documentData, fetched, randomDoc, randomFile)
        IN  /\ onyxFetch' = fetched
            /\ onyxResponse' = onyxReturned
            /\ response' = POST_Respond(onyxReturned, documentData)
    /\ pc' = "responded"
    /\ UNCHANGED <<req, mcpSent, mcpFetch, mcpResponse, fsReads, documentData,
                   onyxSent>>
    /\ UNCHANGED chunkVars
    /\ UNCHANGED syncVars

\* the response has gone out; the route is ready for its next request
NextRequest ==
    /\ pc = "responded"
    /\ pc' = "idle"
    /\ req' = NoRequest
    /\ mcpSent' = <<>>
    /\ mcpFetch' = NoMcpFetch
    /\ mcpResponse' = NoMcpResponse
    /\ documentData' = NoDocument
    /\ onyxSent' = <<>>
    /\ onyxFetch' = NoFetch
    /\ onyxResponse' = NoOnyxResponse
    /\ response' = NoResponse
    /\ UNCHANGED fsReads
    /\ UNCHANGED chunkVars
    /\ UNCHANGED syncVars

Next ==
    \/ GET_Start
    \/ GET_McpReturn
    \/ POST_BadBody
    \/ POST_Start
    \/ POST_McpReturn
    \/ POST_OnyxReturn
    \/ NextRequest

Spec == Init /\ [][Next]_vars

TypeOK ==
    /\ pc \in {"idle", "GET_mcp", "POST_mcp", "POST_onyx", "responded",
              "helper_start", "helper_called", "helper_processed"}
    /\ response.status \in {0, 200, 500}
    /\ sPc \in {"idle", "running", "returned"}

(***************************************************************************)
(* Helper harness: callMCPServer applied to every reply its fetch can      *)
(* give, whatever server sits behind MCP_SERVER_URL, and                   *)
(* processDocumentContent applied to what it returned.                     *)
(***************************************************************************)
McpErrorTexts == {"PathDenied", "TooLarge", "Unreadable", "UnsupportedExtension"}
McpStatuses == {200, 500, 503}
McpContents == {<<>>, Base64Encode(<<97>>), Base64Encode(<<97, 98, 32>>)}

\* metadata objects a server can return: none of the route's keys, some of
\* them next to a key of its own, all of them
McpMetadatas ==
    {EmptyObject,
     [sizeBytes |-> 3, extension |-> "txt"],
     [fileName |-> "evil.txt", source |-> "server", checksum |-> "c1"],
     [fileName |-> "evil.txt", filePath |-> <<"etc", "passwd">>,
      fileType |-> "folder", processedAt |-> "t0", chunkCount |-> 99,
      originalSize |-> 99, source |-> "server", mcpProcessed |-> FALSE]}

McpResults ==
    {NoResult} \cup {Result(content, metadata) :
                         content \in McpContents, metadata \in McpMetadatas}

McpReplies ==
    {FetchThrew(message) : message \in RawErrorTexts}
        \cup {HttpReply(status, error, result) :
                 status \in McpStatuses,
                 error \in {None} \cup McpErrorTexts,
                 result \in McpResults}

HelperInit ==
    /\ ChunkIdle
    /\ SyncIdle
    /\ fsReads = {}
    /\ pc = "helper_start"
    /\ req \in {[method |-> "POST", filePath |-> <<"docs", "a.txt">>,
                  fileName |-> fileName, fileType |-> fileType] :
                     fileName \in FileNames, fileType \in FileTypes}
    /\ mcpSent = <<>>
    /\ mcpFetch \in McpReplies
    /\ mcpResponse = NoMcpResponse
    /\ documentData = NoDocument
    /\ onyxSent = <<>>
    /\ onyxFetch = NoFetch
    /\ onyxResponse = NoOnyxResponse
    /\ response = NoResponse

Helper_callMCPServer ==
    /\ pc = "helper_start"
    /\ mcpResponse' = callMCPServer(mcpFetch)
    /\ pc' = "helper_called"
    /\ UNCHANGED <<req, mcpSent, mcpFetch, fsReads, documentData, onyxSent,
                   onyxFetch, onyxResponse, response>>
    /\ UNCHANGED chunkVars
    /\ UNCHANGED syncVars

Helper_processDocumentContent ==
    /\ pc = "helper_called"
    /\ mcpResponse.success
    /\ \E now \in Clock :
        documentData' = processDocumentContent(req.fileName, req.filePath,
                            req.fileType, mcpResponse.content,
                            mcpResponse.metadata, now)
    /\ pc' = "helper_processed"
    /\ UNCHANGED <<req, mcpSent, mcpFetch, mcpResponse, fsReads, onyxSent,
                   onyxFetch, onyxResponse, response>>
    /\ UNCHANGED chunkVars
    /\ UNCHANGED syncVars

HelperNext == Helper_callMCPServer \/ Helper_processDocumentContent

HelperSpec == HelperInit /\ [][HelperNext]_vars

(***************************************************************************)
(* The SyncCoordinator of the file server (sync_directory_to_onyx): one    *)
(* sync run over a resolved directory.  A file is started by a worker of   *)
(* the bounded pool, is validated and read (first suspension point), is    *)
(* chunked and handed to the external ingestion contract (second           *)
(* suspension point), and ends succeeded or failed.                        *)
(***************************************************************************)
SyncDirectories == {<<"docs">>, <<"inbox">>}

Discover(resolvedDirectory) ==
    LET listing == ServerListDirectory(resolvedDirectory).result.content
    IN  [n \in 1..Len(listing) |-> listing[n].path]

PendingFile(path) ==
    [path |-> path, state |-> "pending", reason |-> None, documentId |-> None,
     chunkCount |-> 0, read |-> FALSE, ingestCalled |-> FALSE]

\* what the external ingestion contract can answer for one document
IngestOutcomes ==
    {[ok |-> TRUE, documentId |-> "doc_s1", reason |-> None],
     [ok |-> FALSE, documentId |-> None, reason |-> "IngestError"],
     [ok |-> FALSE, documentId |-> None, reason |-> "IngestTimeout"]}

SyncChunkCount(bytes) == Len(chunkContent(bytes, DefaultChunkSize))

FilesIn(states) == {i \in 1..Len(sFiles) : sFiles[i].state \in states}
InFlight == FilesIn({"reading", "ingesting"})

\* variant: a worker is started whatever the number of files in flight
CanStart_Unbounded == ~sCancelled

\* variant: workers keep being started after the cancellation signal
CanStart_IgnoresCancel == Cardinality(InFlight) < SyncConcurrency

\* a further file may be started
CanStart == ~sCancelled /\ Cardinality(InFlight) < SyncConcurrency

\* variant: the run ends as soon as a file has failed
SyncDone_AbortOnFailure ==
    /\ InFlight = {}
    /\ (sCancelled \/ FilesIn({"pending"}) = {} \/ FilesIn({"failed"}) # {})

\* the run is over: nothing in flight, and nothing left to start
SyncDone == InFlight = {} /\ (sCancelled \/ FilesIn({"pending"}) = {})

\* variant: the sequences are assembled in completion order
AssemblyOrder_Completion(discovered, completed) == completed

\* the order in which the outcome lists the files: discovery order
AssemblyOrder(discovered, completed) == [n \in 1..Len(discovered) |-> n]

\* variant: files with a disallowed extension are left out of the report
SyncOutcomeOf_SkipsUnsupported(order, files) ==
    LET Succeeded(i) == files[i].state = "succeeded"
        Failed(i) == files[i].state = "failed" /\ files[i].reason # "UnsupportedExtension"
        good == SelectSeq(order, Succeeded)
        bad  == SelectSeq(order, Failed)
    IN  [succeeded    |-> [n \in 1..Len(good) |->
                              [path |-> files[good[n]].path,
                               externalDocumentId |-> files[good[n]].documentId,
                               chunkCount |-> files[good[n]].chunkCount]],
         failed       |-> [n \in 1..Len(bad) |->
                              [path |-> files[bad[n]].path,
                               reason |-> files[bad[n]].reason]],
         totalFiles   |-> Len(good) + Len(bad),
         successCount |-> Len(good),
         failCount    |-> Len(bad)]

\* the SyncOutcome built from the per-file results
SyncOutcomeOf(order, files) ==
    LET Succeeded(i) == files[i].state = "succeeded"
        Failed(i) == files[i].state = "failed"
        good == SelectSeq(order, Succeeded)
        bad  == SelectSeq(order, Failed)
    IN  [succeeded    |-> [n \in 1..Len(good) |->
                              [path |-> files[good[n]].path,
                               externalDocumentId |-> files[good[n]].documentId,
                               chunkCount |-> files[good[n]].chunkCount]],
         failed       |-> [n \in 1..Len(bad) |->
                              [path |-> files[bad[n]].path,
                               reason |-> files[bad[n]].reason]],
         totalFiles   |-> Len(files),
         successCount |-> Len(good),
         failCount    |-> Len(bad)]

SyncInit ==
    /\ ChunkIdle
    /\ RouteIdle
    /\ fsReads = {}
    /\ SyncIdle

\* sync(resolvedDirectory, ...): discovery through the DirectoryLister
SyncStart ==
    /\ sPc = "idle"
    /\ \E dir \in SyncDirectories :
        /\ sDiscovered' = Discover(dir)
        /\ sFiles' = [n \in 1..Len(Discover(dir)) |-> PendingFile(Discover(dir)[n])]
    /\ sPc' = "running"
    /\ UNCHANGED <<sCompleted, sCancelled, sPendingAtCancel, sOutcome>>
    /\ UNCHANGED chunkVars
    /\ UNCHANGED routeVars

\* a worker of the pool takes a file that has not been started
FileStart ==
    \E i \in 1..Len(sFiles) :
        /\ sPc = "running"
        /\ CanStart
        /\ sFiles[i].state = "pending"
        /\ sFiles' = [sFiles EXCEPT ![i].state = "reading"]
        /\ UNCHANGED <<sPc, sDiscovered, sCompleted, sCancelled, sPendingAtCancel, sOutcome>>
        /\ UNCHANGED chunkVars
        /\ UNCHANGED routeVars

\* validate via PathGuard and read via FileReader; on success chunk via the
\* Chunker and invoke the external ingestion contract
FileRead ==
    \E i \in 1..Len(sFiles) :
        /\ sPc = "running"
        /\ sFiles[i].state = "reading"
        /\ LET answer == ServerReadFile(sFiles[i].path)
           IN  IF answer.error # None
               THEN /\ sFiles' = [sFiles EXCEPT ![i].state = "failed",
                                                ![i].reason = answer.error]
                    /\ sCompleted' = Append(sCompleted, i)
               ELSE /\ sFiles' = [sFiles EXCEPT
                                     ![i].state = "ingesting",
                                     ![i].read = TRUE,
                                     ![i].chunkCount = SyncChunkCount(FileBytes(sFiles[i].path)),
                                     ![i].ingestCalled = TRUE]
                    /\ UNCHANGED sCompleted
        /\ UNCHANGED <<sPc, sDiscovered, sCancelled, sPendingAtCancel, sOutcome>>
        /\ UNCHANGED chunkVars
        /\ UNCHANGED routeVars

\* the external ingestion contract answers, or its per-file timeout expires
FileIngested ==
    \E i \in 1..Len(sFiles) :
        /\ sPc = "running"
        /\ sFiles[i].state = "ingesting"
        /\ \E outcome \in IngestOutcomes :
            sFiles' = [sFiles EXCEPT
                          ![i].state = IF outcome.ok THEN "succeeded" ELSE "failed",
                          ![i].reason = outcome.reason,
                          ![i].documentId = outcome.documentId]
        /\ sCompleted' = Append(sCompleted, i)
        /\ UNCHANGED <<sPc, sDiscovered, sCancelled, sPendingAtCancel, sOutcome>>
        /\ UNCHANGED chunkVars
        /\ UNCHANGED routeVars

\* the cancellation signal arrives
SyncCancel ==
    /\ sPc = "running"
    /\ ~sCancelled
    /\ sCancelled' = TRUE
    /\ sPendingAtCancel' = FilesIn({"pending"})
    /\ UNCHANGED <<sPc, sDiscovered, sFiles, sCompleted, sOutcome>>
    /\ UNCHANGED chunkVars
    /\ UNCHANGED routeVars

\* the run returns its SyncOutcome; a file that was never started is
\* reported as failed with reason Cancelled
SyncReturn ==
    /\ sPc = "running"
    /\ SyncDone
    /\ LET unstarted == SelectSeq([n \in 1..Len(sFiles) |-> n],
                                  LAMBDA i : sFiles[i].state = "pending")
           files == [i \in 1..Len(sFiles) |->
                        IF sFiles[i].state = "pending"
                        THEN [sFiles[i] EXCEPT !.state = "failed", !.reason = "Cancelled"]
                        ELSE sFiles[i]]
       IN  /\ sFiles' = files
           /\ sCompleted' = sCompleted \o unstarted
           /\ sOutcome' = SyncOutcomeOf(
                              AssemblyOrder(sDiscovered, sCompleted \o unstarted), files)
    /\ sPc' = "returned"
    /\ UNCHANGED <<sDiscovered, sCancelled, sPendingAtCancel>>
    /\ UNCHANGED chunkVars
    /\ UNCHANGED routeVars

SyncNext ==
    \/ SyncStart
    \/ FileStart
    \/ FileRead
    \/ FileIngested
    \/ SyncCancel
    \/ SyncReturn

SyncSpec == SyncInit /\ [][SyncNext]_vars

(***************************************************************************)
(* Helpers for the sync properties.                                        *)
(***************************************************************************)
Returned == sPc = "returned"
ReportedFailed(i, reason) ==
    \E n \in 1..Len(sOutcome.failed) :
        sOutcome.failed[n] = [path |-> sFiles[i].path, reason |-> reason]
ReportedSucceeded(i) ==
    \E n \in 1..Len(sOutcome.succeeded) : sOutcome.succeeded[n].path = sFiles[i].path
\* position of a path in the discovery sequence
DiscoveryIndex(path) == CHOOSE n \in 1..Len(sDiscovered) : sDiscovered[n] = path
\* position of a file in the completion sequence
CompletionIndex(i) == CHOOSE n \in 1..Len(sCompleted) : sCompleted[n] = i

(***************************************************************************)
(* C12: in a sync run the failure of one file is recorded in failed with   *)
(* a reason and does not abort the batch: every other discovered file is   *)
(* still processed to its own result, and the run returns a SyncOutcome.   *)
(***************************************************************************)
C12_FailureIsolation ==
    Returned =>
        \A i \in 1..Len(sFiles) :
            /\ sFiles[i].state \in {"succeeded", "failed"}
            /\ sFiles[i].state = "failed" =>
                   /\ sFiles[i].reason # None
                   /\ ReportedFailed(i, sFiles[i].reason)
            /\ ~sCancelled =>
                   /\ sFiles[i].reason # "Cancelled"
                   /\ ServerReadFile(sFiles[i].path).error = None
                          => sFiles[i].ingestCalled

C12_Witness ==
    /\ Returned
    /\ ~sCancelled
    /\ \E i, j \in 1..Len(sFiles) :
           /\ sFiles[i].state = "failed"
           /\ sFiles[j].state = "succeeded"
           /\ CompletionIndex(i) < CompletionIndex(j)

C14_DiscoveryOrder ==
    Returned =>
        /\ \A m, n \in 1..Len(sOutcome.succeeded) :
               m < n => DiscoveryIndex(sOutcome.succeeded[m].path)
                            < DiscoveryIndex(sOutcome.succeeded[n].path)
        /\ \A m, n \in 1..Len(sOutcome.failed) :
               m < n => DiscoveryIndex(sOutcome.failed[m].path)
                            < DiscoveryIndex(sOutcome.failed[n].path)

\* two files that succeeded completed in the reverse of their discovery order
C14_Witness ==
    /\ Returned
    /\ \E i, j \in 1..Len(sFiles) :
           /\ i < j
           /\ sFiles[i].state = "succeeded"
           /\ sFiles[j].state = "succeeded"
           /\ CompletionIndex(j) < CompletionIndex(i)
           /\ sOutcome.succeeded[1].path = sFiles[i].path

(***************************************************************************)
(* C15: at every moment of a sync run at most syncConcurrency files are    *)
(* in flight (started and neither succeeded nor failed).                   *)
(***************************************************************************)
C15_InFlightBounded == Cardinality(InFlight) <= SyncConcurrency

C15_Witness ==
    /\ sPc = "running"
    /\ Cardinality(InFlight) = SyncConcurrency
    /\ FilesIn({"pending"}) # {}

(***************************************************************************)
(* C16: after a cancellation every file that had not been started is       *)
(* never read or ingested and is reported in failed with reason            *)
(* Cancelled; every file that had been started ends on its own result;     *)
(* and the run returns a SyncOutcome that covers all discovered files.     *)
(***************************************************************************)
C16_Cancellation ==
    sCancelled =>
        /\ \A i \in sPendingAtCancel :
               /\ sFiles[i].state \in {"pending", "failed"}
               /\ ~sFiles[i].read
               /\ ~sFiles[i].ingestCalled
               /\ sFiles[i].state = "failed" => sFiles[i].reason = "Cancelled"
        /\ Returned =>
               /\ \A i \in sPendingAtCancel : ReportedFailed(i, "Cancelled")
               /\ \A i \in (1..Len(sFiles)) \ sPendingAtCancel :
                      /\ sFiles[i].state \in {"succeeded", "failed"}
                      /\ sFiles[i].reason # "Cancelled"
                      /\ (ReportedSucceeded(i) \/ ReportedFailed(i, sFiles[i].reason))
               /\ sOutcome.totalFiles = Len(sDiscovered)

C16_Witness ==
    /\ Returned
    /\ sCancelled
    /\ sPendingAtCancel # {}
    /\ \E i \in sPendingAtCancel : ReportedFailed(i, "Cancelled")
    /\ \E j \in (1..Len(sFiles)) \ sPendingAtCancel : sFiles[j].state = "succeeded"

(***************************************************************************)
(* Helpers for the route properties.                                       *)
(***************************************************************************)
IngestAnswered == pc = "responded" /\ req.method = "POST" /\ mcpSent # <<>>
StoreAccepted == onyxFetch.kind = "http" /\ onyxFetch.ok
ServerAnswered == mcpFetch.kind = "http" /\ mcpFetch.ok
RejectedWith(reason) ==
    response.error = <<"Failed to ingest file: ", "MCP server error: ",
                       "MCP server call failed: ", "MCP server error: ", reason>>

(***************************************************************************)
(* C1: whenever the request to the document store made for a file fails    *)
(* or is answered with a non-OK status, POST reports a failure; a success  *)
(* response carries only the documentId and fileId the store returned.     *)
(***************************************************************************)
C1_IngestFailureReported ==
    (IngestAnswered /\ onyxSent # <<>>) =>
        /\ ~StoreAccepted => ~response.success
        /\ response.success =>
               /\ response.documentId = onyxFetch.document_id
               /\ response.fileId = onyxFetch.file_id

(***************************************************************************)
(* C2: when the listing call behind GET fails, the failure is surfaced:    *)
(* every entry of a listing response reported as successful was returned   *)
(* by the listing call for the requested directory.                        *)
(***************************************************************************)
C2_ListingFailureSurfaced ==
    (pc = "responded" /\ req.method = "GET") =>
        /\ ~mcpResponse.success => ~response.success
        /\ response.success =>
               \A n \in 1..Len(response.files) :
                   response.files[n] \in DirectoryEntries(Resolve(AllowedDirectory))

C4_OversizedRejected ==
    /\ \A p \in fsReads : Len(FileBytes(p)) <= MaxFileSizeBytes
    /\ (req.method = "POST" /\ mcpSent # <<>>
            /\ Len(FileBytes(Resolve(req.filePath))) > MaxFileSizeBytes) =>
           /\ mcpResponse.content = <<>>
           /\ documentData = NoDocument
           /\ onyxSent = <<>>
           /\ pc = "responded" =>
                  /\ response.status = 500
                  /\ ~response.success
                  /\ (ServerAnswered /\ UnderAllowedRoot(Resolve(req.filePath)))
                         => RejectedWith("TooLarge")

C4_Witness ==
    /\ IngestAnswered
    /\ req.filePath = <<"docs", "big.txt">>
    /\ Len(FileBytes(req.filePath)) > MaxFileSizeBytes
    /\ ServerAnswered
    /\ RejectedWith("TooLarge")

(***************************************************************************)
(* C8: chunking the empty text gives zero chunks, never one empty chunk;   *)
(* so ingesting a file with empty content reports a chunk count of 0.      *)
(***************************************************************************)
C8_EmptyTextNoChunks ==
    (req.method = "POST" /\ onyxSent # <<>> /\ documentData.content = <<>>) =>
        /\ documentData.chunks = <<>>
        /\ documentData.metadata.chunkCount = 0
        /\ onyxSent[1].chunks = <<>>
        /\ (pc = "responded" /\ response.success) => response.chunks = 0

C8_Witness ==
    /\ IngestAnswered
    /\ req.filePath = <<"docs", "e.txt">>
    /\ ServerAnswered
    /\ documentData.content = <<>>
    /\ response.success
    /\ response.chunks = 0

(***************************************************************************)
(* C11: a file goes through read, chunk, ingest in that order: a document  *)
(* is sent to the document store only after the read of the file has       *)
(* succeeded and its chunks have been computed from the text read, and     *)
(* when the read fails the request fails and nothing is ever sent to the   *)
(* document store for it.                                                  *)
(***************************************************************************)
C11_ReadChunkIngestOrder ==
    /\ onyxSent # <<>> =>
           /\ mcpResponse.success
           /\ documentData.content = Base64ToText(mcpResponse.content)
           /\ documentData.chunks = chunkContent(documentData.content, DefaultChunkSize)
           /\ onyxSent[1].content = documentData.content
           /\ onyxSent[1].chunks = documentData.chunks
    /\ (req.method = "POST" /\ mcpFetch.kind # None /\ ~mcpResponse.success) =>
           /\ onyxSent = <<>>
           /\ pc = "responded"
           /\ response.status = 500
           /\ ~response.success

C11_Witness ==
    /\ pc = "POST_onyx"
    /\ req.filePath = <<"docs", "a.txt">>
    /\ mcpResponse.success
    /\ Len(documentData.chunks) = 2
    /\ Len(onyxSent) = 1

(***************************************************************************)
(* C17: every call to the document store is bounded by a per-file          *)
(* timeout: when the store never answers, the processing of the file       *)
(* still ends, as the file-level failure IngestTimeout.                    *)
(***************************************************************************)
C17_IngestTimeoutReported ==
    (IngestAnswered /\ onyxFetch.kind = "timeout") =>
        /\ ~response.success
        /\ response.status = 500
        /\ \E n \in 1..Len(response.error) : response.error[n] = "IngestTimeout"

(***************************************************************************)
(* C18: the error reason given to the caller of a failed operation is a    *)
(* generic string: a run that differs only in the error text produced by   *)
(* the downstream service ends with the same error response.               *)
(***************************************************************************)
\* the fetch outcomes that differ from the one of this run only in the
\* error text of the downstream service
OtherErrorTexts ==
    IF mcpFetch.kind = "threw"
    THEN {[mcpFetch EXCEPT !.message = text] : text \in RawErrorTexts}
    ELSE IF mcpFetch.error # None
    THEN {[mcpFetch EXCEPT !.error = text] : text \in RawErrorTexts}
    ELSE {mcpFetch}

C18_ErrorTextGeneric ==
    (IngestAnswered /\ ~response.success) =>
        \A fetched \in OtherErrorTexts :
            /\ McpFailed(callMCPServer(fetched))
            /\ POST_Failure(<<"MCP server error: ">> \o callMCPServer(fetched).error)
                   = response

(***************************************************************************)
(* C19: handling one request sends each downstream request at most once:   *)
(* a failed call to the file server or to the document store is not sent   *)
(* again.                                                                  *)
(***************************************************************************)
C19_NoRetry ==
    /\ Len(mcpSent) <= 1
    /\ Len(onyxSent) <= 1
    /\ (mcpFetch.kind # None /\ ~mcpResponse.success) =>
           /\ pc = "responded"
           /\ Len(mcpSent) = 1
           /\ onyxSent = <<>>
    /\ onyxFetch.kind # None =>
           /\ pc = "responded"
           /\ Len(onyxSent) = 1

C19_Witness ==
    /\ IngestAnswered
    /\ mcpResponse.success
    /\ onyxFetch.kind = "threw"
    /\ Len(mcpSent) = 1
    /\ Len(onyxSent) = 1

(***************************************************************************)
(* C21: when the read call of an ingest request fails (the request threw,  *)
(* the HTTP status was not OK, or the JSON-RPC reply carried an error),    *)
(* the request ends with exactly one response: status 500, success:false   *)
(* and an error text starting with "Failed to ingest file:"; nothing is    *)
(* sent to the document store, and the only step after the response is     *)
(* the one to the next request.                                            *)
(***************************************************************************)
ReadCallFailed ==
    /\ req.method = "POST"
    /\ mcpFetch.kind # None
    /\ (mcpFetch.kind = "threw" \/ ~mcpFetch.ok \/ mcpFetch.error # None)

ReadFailureAnswered ==
    /\ pc = "responded"
    /\ response.status = 500
    /\ ~response.success
    /\ Len(response.error) >= 1
    /\ response.error[1] = "Failed to ingest file: "
    /\ documentData = NoDocument
    /\ onyxSent = <<>>
    /\ onyxFetch = NoFetch

C21_ReadFailureGives500 ==
    [][/\ ReadCallFailed' => ReadFailureAnswered'
       /\ ReadCallFailed => (pc' = "idle" /\ response' = NoResponse)]_vars

C21_Witness ==
    /\ ReadCallFailed
    /\ ReadFailureAnswered
    /\ mcpFetch.kind = "http"
    /\ mcpFetch.status = 503
    /\ req.filePath = <<"docs", "a.txt">>

(***************************************************************************)
(* C22: a response carries a warning field exactly when fallback data      *)
(* stands in for a failed downstream call: the mock folders of a listing   *)
(* response (GET) and the generated document and file ids of an ingest     *)
(* response (POST).                                                        *)
(***************************************************************************)
ListingFellBack == req.method = "GET" /\ ~mcpResponse.success
IngestFellBack == req.method = "POST" /\ onyxFetch.kind # None /\ ~StoreAccepted

C22_WarningIffFallback ==
    (pc = "responded" /\ response.success) =>
        ((response.warning # None) <=> (ListingFellBack \/ IngestFellBack))

(***************************************************************************)
(* C23: addDocumentToOnyx returns success:true whatever the request to the *)
(* document store gave (OK, non-OK, threw); so no response carries the     *)
(* "Onyx integration error" text, and an ingest request whose read step    *)
(* succeeded and whose content was processed answers success:true.         *)
(***************************************************************************)
C23_StoreStepAlwaysSucceeds ==
    /\ \A n \in 1..Len(response.error) : response.error[n] # "Onyx integration error: "
    /\ (req.method = "POST" /\ onyxFetch.kind # None) => onyxResponse.success
    /\ (IngestAnswered /\ mcpResponse.success /\ documentData # NoDocument) =>
           /\ onyxFetch.kind # None
           /\ response.status = 200
           /\ response.success
           /\ response.error = <<>>

C23_Witness ==
    /\ IngestAnswered
    /\ mcpResponse.success
    /\ onyxFetch.kind = "http"
    /\ onyxFetch.status = 500
    /\ onyxResponse.success
    /\ response.success

(***************************************************************************)
(* C24: callMCPServer returns a value for every outcome of its HTTP call   *)
(* and throws nothing: success:false with an error text exactly when the   *)
(* request threw, the HTTP status was not OK or the JSON-RPC reply held an *)
(* error, and otherwise success:true with the content and the metadata of  *)
(* the reply, '' and {} standing in for absent ones.                       *)
(***************************************************************************)
McpCallFailed ==
    mcpFetch.kind = "threw" \/ ~mcpFetch.ok \/ mcpFetch.error # None

C25_ChunkCountsAgree ==
    (IngestAnswered /\ response.success) =>
        /\ Len(onyxSent) = 1
        /\ documentData.chunks = chunkContent(documentData.content, DefaultChunkSize)
        /\ onyxSent[1].chunks = documentData.chunks
        /\ response.chunks = Len(onyxSent[1].chunks)
        /\ response.metadata.chunkCount = response.chunks
        /\ onyxSent[1].metadata.chunkCount = response.chunks

C25_Witness ==
    /\ IngestAnswered
    /\ response.success
    /\ ~StoreAccepted
    /\ req.filePath = <<"docs", "a.txt">>
    /\ response.chunks = 2
    /\ response.metadata.chunkCount = 2
    /\ Len(onyxSent[1].chunks) = 2

(***************************************************************************)
(* C28: in the metadata of a processed document the fields fileName,       *)
(* filePath, fileType, chunkCount, originalSize, source and mcpProcessed   *)
(* are the route's values for the request, whatever the file server's      *)
(* metadata holds under those keys, and every other key of the file        *)
(* server's metadata is passed through unchanged.                          *)
(***************************************************************************)
ListedRouteFields ==
    {"fileName", "filePath", "fileType", "chunkCount", "originalSize",
     "source", "mcpProcessed"}

RouteValuesKept ==
    /\ documentData.metadata.fileName = req.fileName
    /\ documentData.metadata.filePath = req.filePath
    /\ documentData.metadata.fileType = req.fileType
    /\ documentData.metadata.chunkCount = Len(documentData.chunks)
    /\ documentData.metadata.originalSize = Len(documentData.content)
    /\ documentData.metadata.source = "local_file"
    /\ documentData.metadata.mcpProcessed = TRUE

PassedThrough(routeFields) ==
    \A k \in (DOMAIN mcpResponse.metadata) \ routeFields :
        /\ k \in DOMAIN documentData.metadata
        /\ documentData.metadata[k] = mcpResponse.metadata[k]

C28_OtherKeysPassThrough ==
    pc = "helper_processed" =>
        /\ RouteValuesKept
        /\ PassedThrough(ListedRouteFields)

(***************************************************************************)
(* C28 as amended: processedAt is a field of the route too: the eight      *)
(* fields fileName, filePath, fileType, processedAt, chunkCount,           *)
(* originalSize, source and mcpProcessed are the route's values for the    *)
(* request, and every other key of the file server's metadata is passed    *)
(* through unchanged.                                                      *)
(***************************************************************************)
C28_RouteFieldsOverride ==
    pc = "helper_processed" =>
        /\ RouteValuesKept
        /\ documentData.metadata.processedAt \in Clock
        /\ PassedThrough(ListedRouteFields \cup {"processedAt"})
        /\ DOMAIN documentData.metadata =
               ListedRouteFields \cup {"processedAt"} \cup DOMAIN mcpResponse.metadata

C28_Witness ==
    /\ pc = "helper_processed"
    /\ "checksum" \in DOMAIN mcpResponse.metadata
    /\ "fileName" \in DOMAIN mcpResponse.metadata
    /\ mcpResponse.metadata.fileName = "evil.txt"
    /\ documentData.metadata.fileName = req.fileName
    /\ documentData.metadata.source = "local_file"
    /\ documentData.metadata.checksum = "c1"

(***************************************************************************)
(* Helpers for the chunker properties.                                     *)
(***************************************************************************)
DropFirst(s, k) == SubSeq(s, k + 1, Len(s))
TakeFirst(s, k) == SubSeq(s, 1, Min(k, Len(s)))
TakeLast(s, k) == SubSeq(s, (IF Len(s) > k THEN Len(s) - k ELSE 0) + 1, Len(s))

\* the chunks' contents joined in array order, each chunk after the first
\* without its k leading (overlapping) characters
RECURSIVE Reassemble(_, _)
Reassemble(chunks, k) ==
    IF chunks = <<>> THEN <<>>
    ELSE IF Len(chunks) = 1 THEN chunks[1].content
    ELSE Reassemble(SubSeq(chunks, 1, Len(chunks) - 1), k)
             \o DropFirst(chunks[Len(chunks)].content, k)

\* offset (0-based) at which chunk j of the returned array ends in the text
CutAfter(j) == cChunks[j].id + Len(cChunks[j].content)

\* a cut at offset p falls on a whitespace boundary when the character
\* before it or the character after it is whitespace
BoundaryAt(text, p) ==
    /\ p >= 1
    /\ p < Len(text)
    /\ (text[p] \in Whitespace \/ text[p + 1] \in Whitespace)

(***************************************************************************)
(* C5: for every text, chunkSize n >= 1 and overlap k < n, joining the     *)
(* chunks in index order after removing the k overlapping characters       *)
(* gives back the text exactly.                                            *)
(***************************************************************************)
C5_ReassembleGivesText ==
    cPc = "returned" => Reassemble(cChunks, cOverlap) = cText

(***************************************************************************)
(* C6: consecutive chunks share `overlap` characters: the last `overlap`   *)
(* characters of chunk i are the first `overlap` characters of chunk i+1.  *)
(***************************************************************************)
C6_ConsecutiveChunksOverlap ==
    cPc = "returned" =>
        \A j \in 1..(Len(cChunks) - 1) :
            /\ Len(cChunks[j + 1].content) >= cOverlap
            /\ TakeLast(cChunks[j].content, cOverlap)
                   = TakeFirst(cChunks[j + 1].content, cOverlap)

(***************************************************************************)
(* C7: every chunk the chunker returns has at most chunkSize characters.   *)
(***************************************************************************)
C7_ChunkLengthBounded ==
    cPc = "returned" =>
        \A j \in 1..Len(cChunks) : Len(cChunks[j].content) <= cSize

C7_Witness ==
    /\ cPc = "returned"
    /\ Len(cText) > cSize
    /\ Len(cChunks) >= 2
    /\ Len(cChunks[1].content) = cSize
    /\ Len(cChunks[Len(cChunks)].content) < cSize

(***************************************************************************)
(* C9: the chunks carry the indices 0, 1, ..., m-1 in array order, without *)
(* gap or duplicate, and chunk j is the j-th piece of the text: it starts  *)
(* where its id says, holds the text found there, and ends no later than   *)
(* chunk j+1 starts.                                                       *)
(***************************************************************************)
C9_IndicesContiguousInOrder ==
    cPc = "returned" =>
        \A j \in 1..Len(cChunks) :
            /\ cChunks[j].index = j - 1
            /\ cChunks[j].content
                   = slice(cText, cChunks[j].id, CutAfter(j))
            /\ j < Len(cChunks) =>
                   /\ cChunks[j].id < cChunks[j + 1].id
                   /\ CutAfter(j) <= cChunks[j + 1].id

C9_Witness ==
    /\ cPc = "returned"
    /\ cSize >= 2
    /\ Len(cChunks) >= 2
    /\ cChunks[2].index = 1
    /\ cChunks[2].id = cSize

(***************************************************************************)
(* C10: when a whitespace boundary lies in the tolerance window before     *)
(* position chunkSize of a chunk, the chunker cuts at a boundary and not   *)
(* inside a word; the hard cut at chunkSize is taken only when the window  *)
(* holds no boundary.                                                      *)
(***************************************************************************)
C10_CutsAtBoundaryInWindow ==
    cPc = "returned" =>
        \A j \in 1..(Len(cChunks) - 1) :
            (\E p \in (cChunks[j].id + cSize - Tolerance)..(cChunks[j].id + cSize) :
                 p > cChunks[j].id /\ BoundaryAt(cText, p))
              => BoundaryAt(cText, CutAfter(j))

(***************************************************************************)
(* C26: for a text of length L and chunkSize n >= 1 chunkContent returns   *)
(* ceil(L / n) chunks; every chunk but the last has exactly n characters,  *)
(* the last has between 1 and n, and the chunk with index j holds the      *)
(* text from offset j * n on.                                              *)
(***************************************************************************)
CeilDiv(a, b) == (a + b - 1) \div b

C27_LoopTerminates ==
    /\ [](cSize >= 1 =>
            <>(cPc = "returned" /\ cChunks = chunkContent(cText, cSize)))
    /\ []((cSize <= 0 /\ cText # <<>>) => (cPc = "loop" /\ cI < Len(cText)))

C27_Witness ==
    /\ cPc = "returned"
    /\ cSize = 1
    /\ Len(cText) = MaxTextLen
    /\ cI = MaxTextLen
    /\ Len(cChunks) = MaxTextLen

C27_WitnessNoProgress ==
    /\ cPc = "loop"
    /\ cSize = 0
    /\ cText # <<>>
    /\ Len(cChunks) = MaxLoopSteps
    /\ cI = 0

====
